---------------------------- MODULE Spec2Model ----------------------------
(***************************************************************************)
(* A model of the LandGoals geoprocessing scripts.                         *)
(*                                                                         *)
(*   Helper.py    garbagePickup, CleanFeatures, CleanClip, CleanErase,     *)
(*                GetElapsedTime                          (Spec, FairSpec) *)
(*   SelectTop.py SelectTopAgr                            (SpecTop)        *)
(*                                                                         *)
(* The geoprocessing engine (arcpy) is the environment.  Every engine tool *)
(* call either returns or raises, chosen nondeterministically; each call   *)
(* is appended to `log` with the dataset it was aimed at and its outcome.  *)
(***************************************************************************)
EXTENDS Integers, Sequences, FiniteSets

VARIABLES
  fn,          \* the function the caller invoked
  pc,          \* position of control
  scratchGDB,  \* the scratchGDB argument of CleanClip / CleanErase
  cfIn,        \* CleanFeatures' inFeats argument
  counter,     \* CleanFeatures' local counter
  trashList,   \* garbagePickup's argument
  ti,          \* position of garbagePickup's for loop in trashList
  log,         \* engine tool calls made so far, in order
  invoked,     \* the functions of Helper.py entered so far
  result,      \* value returned to the caller
  t1, t2,      \* GetElapsedTime's arguments (whole seconds since an epoch)
  top          \* state of SelectTopAgr (a record, see SelectTop below)

vars == <<fn, pc, scratchGDB, cfIn, counter, trashList, ti, log, invoked,
          result, t1, t2, top>>

helperVars == <<fn, pc, scratchGDB, cfIn, counter, trashList, ti, log,
                invoked, result, t1, t2>>

(***************************************************************************)
(* Bounds of the model.                                                    *)
(***************************************************************************)
MaxTrash == 3      \* longest trashList handed to garbagePickup directly
MaxTicks == 40     \* t1 and t2 range over 0 .. MaxTicks ticks
GridCols == 3      \* raster columns of SelectTopAgr's input (two rows)

None == "None"

(***************************************************************************)
(* Helper.py                                                               *)
(***************************************************************************)
inFeats  == "inFeats"
outFeats == "outFeats"

\* scratchGDB + os.sep + name
ScratchPath(gdb, name) == <<gdb, name>>

ScratchGDBs == {"in_memory", "scratch.gdb"}

tmpClip   == ScratchPath(scratchGDB, "tmpClip")
tmpErased == ScratchPath(scratchGDB, "tmpErased")

Call(tool, arg, ok) == [tool |-> tool, arg |-> arg, ok |-> ok]

\* An exception nobody catches unwinds every frame: control ends at the caller.
Raise == pc' = "raised" /\ result' = None

-----------------------------------------------------------------------------
(* garbagePickup(trashList) *)

\* for t in trashList:
GP_For ==
  /\ pc = "gp_for"
  /\ pc' = IF ti <= Len(trashList) THEN "gp_delete" ELSE "gp_return"
  /\ UNCHANGED <<fn, scratchGDB, cfIn, counter, trashList, ti, log, invoked,
                 result, t1, t2, top>>

\* The new position of the loop after Delete_management returned (ok) or
\* raised; the variant is the loop without its try/except.
GP_AfterDelete_Abort(ok) == IF ok THEN "gp_for" ELSE "raised"
GP_AfterDelete(ok) == "gp_for"

\* try: arcpy.Delete_management(t)  except: pass
GP_Delete ==
  /\ pc = "gp_delete"
  /\ \E ok \in BOOLEAN :
       /\ log' = Append(log, Call("Delete", trashList[ti], ok))
       /\ pc' = GP_AfterDelete(ok)
  /\ ti' = ti + 1
  /\ UNCHANGED <<fn, scratchGDB, cfIn, counter, trashList, invoked, result,
                 t1, t2, top>>

\* return
GP_Return ==
  /\ pc = "gp_return"
  /\ IF fn = "garbagePickup"
       THEN pc' = "returned" /\ result' = None
       ELSE pc' = "cc_return" /\ UNCHANGED result
  /\ UNCHANGED <<fn, scratchGDB, cfIn, counter, trashList, ti, log, invoked,
                 t1, t2, top>>

-----------------------------------------------------------------------------
(* CleanFeatures(inFeats, outFeats) *)

MaxTries    == 10   \* while counter <= 10
ExitCounter == 11   \* counter = 11 / if counter == 11

\* arcpy.RepairGeometry_management(inFeats, "DELETE_NULL"); counter = 1
CF_Repair ==
  /\ pc = "cf_repair"
  /\ \E ok \in BOOLEAN :
       /\ log' = Append(log, Call("RepairGeometry", cfIn, ok))
       /\ IF ok THEN pc' = "cf_while" /\ counter' = 1 /\ UNCHANGED result
               ELSE Raise /\ UNCHANGED counter
  /\ UNCHANGED <<fn, scratchGDB, cfIn, trashList, ti, invoked, t1, t2, top>>

\* The loop test, and the same test giving up one try early.
WhileCond_OffByOne(c) == c < MaxTries
WhileCond(c) == c <= MaxTries

\* while counter <= 10:
CF_While ==
  /\ pc = "cf_while"
  /\ pc' = IF WhileCond(counter) THEN "cf_try" ELSE "cf_return"
  /\ UNCHANGED <<fn, scratchGDB, cfIn, counter, trashList, ti, log, invoked,
                 result, t1, t2, top>>

\* counter = 11 after the conversion succeeded; the variant leaves the loop
\* one more round.
CounterAfterSuccess_OneShort == MaxTries
CounterAfterSuccess == ExitCounter

\* try: arcpy.MultipartToSinglepart_management(inFeats, outFeats); counter = 11
\* except: -> handler
CF_Try ==
  /\ pc = "cf_try"
  /\ \E ok \in BOOLEAN :
       /\ log' = Append(log, Call("MultipartToSinglepart", cfIn, ok))
       /\ IF ok THEN pc' = "cf_while" /\ counter' = CounterAfterSuccess
               ELSE pc' = "cf_except" /\ UNCHANGED counter
  /\ UNCHANGED <<fn, scratchGDB, cfIn, trashList, ti, invoked, result,
                 t1, t2, top>>

\* The state of CleanFeatures after the handler's RepairGeometry call.
AfterHandlerRepair(ok) ==
  IF ok THEN pc' = "cf_check" /\ counter' = counter + 1 /\ UNCHANGED result
        ELSE Raise /\ UNCHANGED counter

\* except: arcpy.RepairGeometry_management(inFeats, "DELETE_NULL"); counter += 1
CF_Except ==
  /\ pc = "cf_except"
  /\ \E ok \in BOOLEAN :
       /\ log' = Append(log, Call("RepairGeometry", cfIn, ok))
       /\ AfterHandlerRepair(ok)
  /\ UNCHANGED <<fn, scratchGDB, cfIn, trashList, ti, invoked, t1, t2, top>>

\* The test that guards the fallback copy, and the same test one count early.
CopyCond_Early(c) == c = MaxTries
CopyCond(c) == c = ExitCounter

\* if counter == 11:
CF_Check ==
  /\ pc = "cf_check"
  /\ pc' = IF CopyCond(counter) THEN "cf_copy" ELSE "cf_while"
  /\ UNCHANGED <<fn, scratchGDB, cfIn, counter, trashList, ti, log, invoked,
                 result, t1, t2, top>>

\* arcpy.CopyFeatures_management(inFeats, outFeats)
CF_Copy ==
  /\ pc = "cf_copy"
  /\ \E ok \in BOOLEAN :
       /\ log' = Append(log, Call("CopyFeatures", cfIn, ok))
       /\ IF ok THEN pc' = "cf_while" /\ UNCHANGED result ELSE Raise
  /\ UNCHANGED <<fn, scratchGDB, cfIn, counter, trashList, ti, invoked,
                 t1, t2, top>>

\* return outFeats
CF_Return ==
  /\ pc = "cf_return"
  /\ IF fn = "CleanFeatures"
       THEN pc' = "returned" /\ result' = outFeats
       ELSE pc' = "cc_cleanup" /\ UNCHANGED result
  /\ UNCHANGED <<fn, scratchGDB, cfIn, counter, trashList, ti, log, invoked,
                 t1, t2, top>>

-----------------------------------------------------------------------------
(* CleanClip(inFeats, clipFeats, outFeats, scratchGDB) and                 *)
(* CleanErase(inFeats, eraseFeats, outFeats, scratchGDB)                   *)

\* The state after Clip_analysis / Erase_analysis wrote (ok) the temporary
\* dataset tmp or raised: on success CleanFeatures(tmp, outFeats) is entered.
\* The variant is an overlay call wrapped in a handler that carries on.
AfterOverlay_Swallow(ok, tmp) ==
  /\ pc' = "cf_repair"
  /\ cfIn' = tmp
  /\ invoked' = invoked \cup {"CleanFeatures"}
  /\ UNCHANGED result
AfterOverlay(ok, tmp) ==
  IF ok THEN /\ pc' = "cf_repair"
             /\ cfIn' = tmp
             /\ invoked' = invoked \cup {"CleanFeatures"}
             /\ UNCHANGED result
        ELSE Raise /\ UNCHANGED <<cfIn, invoked>>

\* tmpClip = scratchGDB + os.sep + "tmpClip"
\* arcpy.Clip_analysis(inFeats, clipFeats, tmpClip); CleanFeatures(tmpClip, outFeats)
CC_Clip ==
  /\ pc = "cc_overlay"
  /\ fn = "CleanClip"
  /\ \E ok \in BOOLEAN :
       /\ log' = Append(log, Call("Clip", tmpClip, ok))
       /\ AfterOverlay(ok, tmpClip)
  /\ UNCHANGED <<fn, scratchGDB, counter, trashList, ti, t1, t2, top>>

\* tmpErased = scratchGDB + os.sep + "tmpErased"
\* arcpy.Erase_analysis(inFeats, eraseFeats, tmpErased, ""); CleanFeatures(tmpErased, outFeats)
CE_Erase ==
  /\ pc = "cc_overlay"
  /\ fn = "CleanErase"
  /\ \E ok \in BOOLEAN :
       /\ log' = Append(log, Call("Erase", tmpErased, ok))
       /\ AfterOverlay(ok, tmpErased)
  /\ UNCHANGED <<fn, scratchGDB, counter, trashList, ti, t1, t2, top>>

\* The temporary dataset the running CleanClip / CleanErase created.
tmpFeats == IF fn = "CleanClip" THEN tmpClip ELSE tmpErased

\* The test that guards the cleanup, and a cleanup that ignores scratchGDB.
CleanupCond_Always(gdb) == TRUE
CleanupCond(gdb) == gdb = "in_memory"

\* if scratchGDB == "in_memory": garbagePickup([tmpClip])
CC_Cleanup ==
  /\ pc = "cc_cleanup"
  /\ IF CleanupCond(scratchGDB)
       THEN /\ trashList' = <<tmpFeats>>
            /\ ti' = 1
            /\ invoked' = invoked \cup {"garbagePickup"}
            /\ pc' = "gp_for"
       ELSE /\ pc' = "cc_return"
            /\ UNCHANGED <<trashList, ti, invoked>>
  /\ UNCHANGED <<fn, scratchGDB, cfIn, counter, log, result, t1, t2, top>>

\* return outFeats
CC_Return ==
  /\ pc = "cc_return"
  /\ pc' = "returned"
  /\ result' = outFeats
  /\ UNCHANGED <<fn, scratchGDB, cfIn, counter, trashList, ti, log, invoked,
                 t1, t2, top>>

-----------------------------------------------------------------------------
(* GetElapsedTime(t1, t2) *)

\* delta = t2 - t1: a timedelta is normalised to days (any sign) and
\* 0 <= seconds < 86400.
Delta(a, b) == [days |-> (b - a) \div 86400, seconds |-> (b - a) % 86400]

\* (d, m, s) = (delta.days, delta.seconds/60, delta.seconds%60)
\* (h, m) = (m/60, m%60)
\* The returned string '%s days, %s hours, %s minutes, %s seconds' is kept as
\* the four numbers it prints.  The variant forgets (h, m) = (m/60, m%60)'s
\* remainder.
ElapsedFields_NoCarry(delta) ==
  [d |-> delta.days, h |-> (delta.seconds \div 60) \div 60,
   m |-> delta.seconds \div 60, s |-> delta.seconds % 60]
ElapsedFields(delta) ==
  LET d == delta.days
      m0 == delta.seconds \div 60
      s == delta.seconds % 60
      h == m0 \div 60
      m == m0 % 60
  IN  [d |-> d, h |-> h, m |-> m, s |-> s]

GetElapsedTime ==
  /\ pc = "get_elapsed"
  /\ result' = ElapsedFields(Delta(t1, t2))
  /\ pc' = "returned"
  /\ UNCHANGED <<fn, scratchGDB, cfIn, counter, trashList, ti, log, invoked,
                 t1, t2, top>>

-----------------------------------------------------------------------------
(* The callers of Helper.py *)

TrashNames == {"tmpA", "tmpB"}
TrashLists == UNION {[1..n -> TrashNames] : n \in 0..MaxTrash}

\* Clock readings handed to GetElapsedTime, 3607 seconds apart.
Times == {k * 3607 : k \in 0..MaxTicks}

TopIdle == [pc |-> "idle"]

InitHelper ==
  /\ fn \in {"garbagePickup", "CleanFeatures", "CleanClip", "CleanErase",
             "GetElapsedTime"}
  /\ pc = CASE fn = "garbagePickup" -> "gp_for"
            [] fn = "CleanFeatures" -> "cf_repair"
            [] fn = "GetElapsedTime" -> "get_elapsed"
            [] OTHER -> "cc_overlay"
  /\ scratchGDB \in IF fn \in {"CleanClip", "CleanErase"}
                      THEN ScratchGDBs ELSE {"in_memory"}
  /\ cfIn = inFeats
  /\ counter = 0
  /\ trashList \in IF fn = "garbagePickup" THEN TrashLists ELSE {<<>>}
  /\ ti = 1
  /\ log = <<>>
  /\ invoked = {fn}
  /\ result = None
  /\ t1 \in IF fn = "GetElapsedTime" THEN Times ELSE {0}
  /\ t2 \in IF fn = "GetElapsedTime" THEN Times ELSE {0}

Init == InitHelper /\ top = TopIdle

Next ==
  \/ GP_For \/ GP_Delete \/ GP_Return
  \/ CF_Repair \/ CF_While \/ CF_Try \/ CF_Except \/ CF_Check \/ CF_Copy
  \/ CF_Return
  \/ CC_Clip \/ CE_Erase \/ CC_Cleanup \/ CC_Return
  \/ GetElapsedTime

Spec == Init /\ [][Next]_vars

\* Every call into the engine is synchronous and returns or raises, and the
\* interpreter runs the single thread on: a step that is possible is taken.
FairSpec == Spec /\ WF_vars(Next)

(***************************************************************************)
(* SelectTop.py: SelectTopAgr(in_FarmAgrVal, in_ConsLands, out_Polys,      *)
(*                            out_Scratch)                                 *)
(*                                                                         *)
(* A raster is a function from the cells that hold data to their values;   *)
(* a cell outside its domain is NoData.  The grid has two rows and         *)
(* GridCols columns.  Areas are whole hectares (10^4 square meters), the   *)
(* acreage fields are hundredths of an acre, rounded down.                 *)
(***************************************************************************)
Cells == (1..2) \X (1..GridCols)

EmptyRaster == [c \in {} |-> 0]

AgrThreshold  == 80         \* in_FarmAgrVal > 80
MinRegionArea == 809371     \* regionSize >= 80937.1, in tenths of a square meter
AcresPerSqM   == 247105     \* !Shape_Area!*0.000247105, in 10^-9 acres
AcreTarget    == 500000     \* Val <= 500000

\* Con(cond, value): value where cond holds (is 1), NoData elsewhere.
Con(cond, value) == [c \in {d \in DOMAIN value : cond[d]} |-> value[c]]

\* in_FarmAgrVal > 80, the boolean raster handed to Con
HighScore(v) == v > AgrThreshold

\* farmRast = Con((in_FarmAgrVal > 80), 1)
T_FarmRast ==
  /\ top.pc = "farmRast"
  /\ top' = [top EXCEPT
       !.farmRast = [c \in {d \in DOMAIN top.in_FarmAgrVal :
                              HighScore(top.in_FarmAgrVal[d])} |-> 1],
       !.pc = "elimRast"]
  /\ UNCHANGED helperVars

\* AddField / CalculateField RASTVAL = 1; PolygonToRaster_conversion(in_ConsLands,
\* "RASTVAL", elimRast, ...): the cells the conserved lands are rasterised to.
T_ElimRast ==
  /\ top.pc = "elimRast"
  /\ top' = [top EXCEPT
       !.elimRast = [c \in top.in_ConsLands |-> 1],
       !.pc = "vulnFarmRast"]
  /\ UNCHANGED helperVars

\* IsNull(elimRast) == 1
Unprotected(elim, c) == c \notin DOMAIN elim

\* vulnFarmRast = Con((IsNull(elimRast)==1), farmRast)
T_VulnFarmRast ==
  /\ top.pc = "vulnFarmRast"
  /\ top' = [top EXCEPT
       !.vulnFarmRast = Con([c \in Cells |-> Unprotected(top.elimRast, c)],
                            top.farmRast),
       !.pc = "regionRast"]
  /\ UNCHANGED helperVars

\* "FOUR": cells are connected when they share an edge; "EIGHT" would also
\* connect cells that share a corner.
Connected_Eight(c, d) ==
  /\ c # d
  /\ c[1] - d[1] \in -1..1
  /\ c[2] - d[2] \in -1..1
Connected(c, d) ==
  \/ c[1] = d[1] /\ c[2] - d[2] \in {-1, 1}
  \/ c[2] = d[2] /\ c[1] - d[1] \in {-1, 1}

\* The cells of S reachable from R through connected cells of S.
RECURSIVE Grow(_, _)
Grow(S, R) ==
  LET R2 == R \cup {d \in S : \E c \in R : Connected(c, d)}
  IN  IF R2 = R THEN R ELSE Grow(S, R2)

\* Position of a cell in the scan of the raster, row by row from the top left.
ScanIndex(c) == (c[1] - 1) * GridCols + c[2]

\* The first cell of a region in scan order.
FirstCell(R) == CHOOSE c \in R : \A d \in R : ScanIndex(c) <= ScanIndex(d)

\* RegionGroup(rast, "FOUR"): each connected region of equal-valued cells gets
\* its own value, numbered 1, 2, ... in scan order of the regions' first cells.
RegionGroup(rast) ==
  LET S == DOMAIN rast
      first == [c \in S |->
                  ScanIndex(FirstCell(Grow({d \in S : rast[d] = rast[c]}, {c})))]
      firsts == {first[c] : c \in S}
  IN  [c \in S |-> Cardinality({f \in firsts : f <= first[c]})]

\* regionRast = RegionGroup(vulnFarmRast, "FOUR")
T_RegionGroup ==
  /\ top.pc = "regionRast"
  /\ top' = [top EXCEPT
       !.regionRast = RegionGroup(top.vulnFarmRast),
       !.pc = "regionSize"]
  /\ UNCHANGED helperVars

\* ZonalGeometry(zones, "VALUE", "AREA"): every cell gets the area of its zone.
ZonalGeometryArea(zones, cellArea) ==
  [c \in DOMAIN zones |->
     Cardinality({d \in DOMAIN zones : zones[d] = zones[c]}) * cellArea]

\* regionSize = ZonalGeometry(regionRast, "VALUE", "AREA")
T_RegionSize ==
  /\ top.pc = "regionSize"
  /\ top' = [top EXCEPT
       !.regionSize = ZonalGeometryArea(top.regionRast, top.cellArea),
       !.pc = "regionSubset"]
  /\ UNCHANGED helperVars

\* regionSize >= 80937.1 for an area of whole hectares (10^5 tenths of a
\* square meter each): the area is at least the threshold rounded up to
\* hectares.
LargeEnough(area) == area >= (MinRegionArea + 99999) \div 100000

\* regionSubset = Con((regionSize >= 80937.1), regionRast)
T_RegionSubset ==
  /\ top.pc = "regionSubset"
  /\ top' = [top EXCEPT
       !.regionSubset =
          Con([c \in Cells |-> c \in DOMAIN top.regionSize
                                 /\ LargeEnough(top.regionSize[c])],
              top.regionRast),
       !.pc = "regionPolys"]
  /\ UNCHANGED helperVars

\* The values of a raster in ascending order.
RECURSIVE Ascending(_)
Ascending(V) ==
  IF V = {} THEN <<>>
  ELSE LET v == CHOOSE x \in V : \A y \in V : x <= y
       IN  <<v>> \o Ascending(V \ {v})

\* RasterToPolygon_conversion(regionSubset, regionPolys, "NO_SIMPLIFY"): one
\* polygon for each edge-connected block of cells of one value, with the value
\* as its gridcode and the block's area as its Shape_Area.
RasterToPolygon(rast, cellArea) ==
  LET codes == Ascending({rast[c] : c \in DOMAIN rast})
  IN  [i \in DOMAIN codes |->
         LET shape == {c \in DOMAIN rast : rast[c] = codes[i]}
         IN  [gridcode |-> codes[i],
              shape |-> shape,
              Shape_Area |-> Cardinality(shape) * cellArea]]

\* arcpy.RasterToPolygon_conversion(regionSubset, regionPolys, "NO_SIMPLIFY")
T_RegionPolys ==
  /\ top.pc = "regionPolys"
  /\ top' = [top EXCEPT
       !.polys = RasterToPolygon(top.regionSubset, top.cellArea),
       !.pc = "zonalTab"]
  /\ UNCHANGED helperVars

RECURSIVE SumOver(_, _)
SumOver(rast, S) ==
  IF S = {} THEN 0
  ELSE LET c == CHOOSE x \in S : TRUE
       IN  rast[c] + SumOver(rast, S \ {c})

\* ZonalStatisticsAsTable(zones, "VALUE", values, zonalTab, "DATA", "MEAN"):
\* for each zone the mean of the values of its cells that hold data, kept as
\* the fraction sum / count.
ZonalMean(zones, values) ==
  [v \in {zones[c] : c \in DOMAIN zones} |->
     LET S == {c \in DOMAIN zones \cap DOMAIN values : zones[c] = v}
     IN  [sum |-> SumOver(values, S), count |-> Cardinality(S)]]

\* ZonalStatisticsAsTable(regionSubset, "VALUE", in_FarmAgrVal, zonalTab, ...)
\* JoinField_management(regionPolys, "gridcode", zonalTab, "Value", "MEAN")
T_ZonalMean ==
  /\ top.pc = "zonalTab"
  /\ LET zonalTab == ZonalMean(top.regionSubset, top.in_FarmAgrVal)
     IN  top' = [top EXCEPT
           !.polys = [i \in DOMAIN top.polys |->
                        [gridcode |-> top.polys[i].gridcode,
                         shape |-> top.polys[i].shape,
                         Shape_Area |-> top.polys[i].Shape_Area,
                         MEAN |-> zonalTab[top.polys[i].gridcode]]],
           !.pc = "sortedPolys"]
  /\ UNCHANGED helperVars

\* a > b for two means sum / count (counts are positive)
MeanGreater(a, b) == a.sum * b.count > b.sum * a.count

\* ["MEAN", "DESCENDING"]: the row with the greater MEAN comes first; the
\* variant is "ASCENDING".
Precedes_Ascending(a, b) == MeanGreater(b.MEAN, a.MEAN)
Precedes(a, b) == MeanGreater(a.MEAN, b.MEAN)

\* Sort_management(in, out, [["MEAN", "DESCENDING"]]): the rows in order of
\* the sort field, rows of equal MEAN in their input order.
SortRows(rows) ==
  LET rank(i) == 1 + Cardinality({j \in DOMAIN rows :
                        \/ Precedes(rows[j], rows[i])
                        \/ /\ ~Precedes(rows[i], rows[j])
                           /\ j < i})
  IN  [p \in DOMAIN rows |-> rows[CHOOSE i \in DOMAIN rows : rank(i) = p]]

\* arcpy.Sort_management(regionPolys, sortedPolys, [["MEAN", "DESCENDING"]])
T_Sort ==
  /\ top.pc = "sortedPolys"
  /\ top' = [top EXCEPT !.polys = SortRows(top.polys), !.pc = "ACRES"]
  /\ UNCHANGED helperVars

\* !Shape_Area!*0.000247105 for an area of a hectares (a * 10^4 square
\* meters), in hundredths of an acre: a * 247105 / 1000, rounded down.  The
\* product is taken in two parts to stay within 32 bits.
Acres(a) ==
  (a \div 1000) * AcresPerSqM + ((a % 1000) * AcresPerSqM) \div 1000

\* AddField ACRES, CUM_ACRES, SELECTION
\* CalculateField_management(sortedPolys, "ACRES", "!Shape_Area!*0.000247105")
T_Acres ==
  /\ top.pc = "ACRES"
  /\ top' = [top EXCEPT
       !.polys = [i \in DOMAIN top.polys |->
                    [gridcode |-> top.polys[i].gridcode,
                     shape |-> top.polys[i].shape,
                     Shape_Area |-> top.polys[i].Shape_Area,
                     MEAN |-> top.polys[i].MEAN,
                     ACRES |-> Acres(top.polys[i].Shape_Area)]],
       !.pc = "CUM_ACRES"]
  /\ UNCHANGED helperVars

\* def accumulate(Val): global cumVal; cumVal += Val; return cumVal
\* The new cumVal; the variant is cumVal = Val.
accumulate_Reset(cumVal, Val) == Val
accumulate(cumVal, Val) == cumVal + Val

\* The field calculator runs accumulate(!ACRES!) on the rows in table order,
\* cumVal = 0 before the first row: the values it returns for rows i, i+1, ...
RECURSIVE CalculateCumAcres(_, _, _)
CalculateCumAcres(rows, i, cumVal) ==
  IF i > Len(rows) THEN <<>>
  ELSE LET new == accumulate(cumVal, rows[i].ACRES)
       IN  <<new>> \o CalculateCumAcres(rows, i + 1, new)

\* CalculateField_management(sortedPolys, "CUM_ACRES", "accumulate(!ACRES!)", ...)
T_CumAcres ==
  /\ top.pc = "CUM_ACRES"
  /\ LET cum == CalculateCumAcres(top.polys, 1, 0)
     IN  top' = [top EXCEPT
           !.polys = [i \in DOMAIN top.polys |->
                        [gridcode |-> top.polys[i].gridcode,
                         shape |-> top.polys[i].shape,
                         Shape_Area |-> top.polys[i].Shape_Area,
                         MEAN |-> top.polys[i].MEAN,
                         ACRES |-> top.polys[i].ACRES,
                         CUM_ACRES |-> cum[i]]],
           !.pc = "SELECTION"]
  /\ UNCHANGED helperVars

\* def select(Val): s = 1 if Val <= 500000 else 0, Val in hundredths of an acre
select(Val) == IF Val <= AcreTarget * 100 THEN 1 ELSE 0

\* CalculateField_management(sortedPolys, "SELECTION", "select(!CUM_ACRES!)", ...)
T_Selection ==
  /\ top.pc = "SELECTION"
  /\ top' = [top EXCEPT
       !.polys = [i \in DOMAIN top.polys |->
                    [gridcode |-> top.polys[i].gridcode,
                     shape |-> top.polys[i].shape,
                     Shape_Area |-> top.polys[i].Shape_Area,
                     MEAN |-> top.polys[i].MEAN,
                     ACRES |-> top.polys[i].ACRES,
                     CUM_ACRES |-> top.polys[i].CUM_ACRES,
                     SELECTION |-> select(top.polys[i].CUM_ACRES)]],
       !.pc = "out_Polys"]
  /\ UNCHANGED helperVars

\* The rows the query "SELECTION = 1" keeps.
Selected(row) == row.SELECTION = 1

\* Select_analysis(sortedPolys, out_Polys, "SELECTION = 1"); return out_Polys
T_Select ==
  /\ top.pc = "out_Polys"
  /\ top' = [top EXCEPT
       !.out_Polys = SelectSeq(top.polys, Selected),
       !.pc = "returned"]
  /\ UNCHANGED helperVars

\* A tool of the engine raises: nothing in SelectTopAgr catches it.
T_Raise ==
  /\ top.pc \notin {"idle", "returned", "raised"}
  /\ top' = [top EXCEPT !.pc = "raised"]
  /\ UNCHANGED helperVars

\* Cell areas of the input raster, in hectares: farm-field sized cells and
\* cells large enough for a few of them to pass the acreage target.
CellAreas == {5, 80000}

\* Agricultural scores of the input raster's cells.
AgrValues == {80, 81, 100}

\* The cells in_ConsLands is rasterised to: none, or the one cell a conserved
\* parcel covers.
ConsLands == {{}} \cup {{c} : c \in Cells}

InitTop ==
  /\ \E agr \in [Cells -> AgrValues], cons \in ConsLands, area \in CellAreas :
       top = [pc |-> "farmRast",
              in_FarmAgrVal |-> agr,
              in_ConsLands |-> cons,
              cellArea |-> area,
              farmRast |-> EmptyRaster,
              elimRast |-> EmptyRaster,
              vulnFarmRast |-> EmptyRaster,
              regionRast |-> EmptyRaster,
              regionSize |-> EmptyRaster,
              regionSubset |-> EmptyRaster,
              polys |-> <<>>,
              out_Polys |-> <<>>]
  /\ fn = "SelectTopAgr"
  /\ pc = "SelectTopAgr"
  /\ scratchGDB = "in_memory"
  /\ cfIn = inFeats
  /\ counter = 0
  /\ trashList = <<>>
  /\ ti = 1
  /\ log = <<>>
  /\ invoked = {}
  /\ result = None
  /\ t1 = 0
  /\ t2 = 0

NextTop ==
  \/ T_FarmRast \/ T_ElimRast \/ T_VulnFarmRast \/ T_RegionGroup
  \/ T_RegionSize \/ T_RegionSubset \/ T_RegionPolys \/ T_ZonalMean
  \/ T_Sort \/ T_Acres \/ T_CumAcres \/ T_Selection \/ T_Select
  \/ T_Raise

SpecTop == InitTop /\ [][NextTop]_vars

-----------------------------------------------------------------------------
(* Reading the call log *)

Calls(tool)  == {i \in DOMAIN log : log[i].tool = tool}
Failed(tool) == {i \in DOMAIN log : log[i].tool = tool /\ ~log[i].ok}
Passed(tool) == {i \in DOMAIN log : log[i].tool = tool /\ log[i].ok}

\* Control is inside the body of CleanFeatures.
InCleanFeatures ==
  pc \in {"cf_repair", "cf_while", "cf_try", "cf_except", "cf_check",
          "cf_copy", "cf_return"}

\* CleanFeatures was entered and control has left it, by return or by raise.
CleanFeaturesOver ==
  "CleanFeatures" \in invoked /\ ~InCleanFeatures /\ pc # "cc_overlay"

\* CleanFeatures returned (to the caller, or into CleanClip / CleanErase).
CleanFeaturesReturned == CleanFeaturesOver /\ pc # "raised"

-----------------------------------------------------------------------------
-----------------------------------------------------------------------------
(* C2: garbagePickup(trashList) calls Delete on the elements of trashList,  *)
(* one call per element and in list order, whatever calls fail; it never    *)
(* raises, and when it returns every element has had its call.              *)
C2_GarbagePickup ==
  fn = "garbagePickup" =>
    /\ pc # "raised"
    /\ Len(log) <= Len(trashList)
    /\ Len(log) = ti - 1
    /\ \A i \in DOMAIN log :
         log[i].tool = "Delete" /\ log[i].arg = trashList[i]
    /\ pc = "returned" => Len(log) = Len(trashList)

\* A list of two or more returned from although its first delete failed.
C2_Witness ==
  /\ fn = "garbagePickup" /\ pc = "returned"
  /\ Len(trashList) >= 2
  /\ ~log[1].ok /\ log[2].ok

-----------------------------------------------------------------------------
\* The Delete of the temporary dataset, made after every call of CleanFeatures.
DeletedAfterCleaning ==
  \E i \in Calls("Delete") :
    /\ log[i].arg = tmpFeats
    /\ \A j \in DOMAIN log :
         log[j].tool \in {"RepairGeometry", "MultipartToSinglepart",
                          "CopyFeatures"} => j < i

(* C6 (original statement): every CleanClip / CleanErase call that returns, *)
(* whatever scratchGDB it was given, has attempted the deletion of its      *)
(* temporary dataset after CleanFeatures finished.                          *)
C6_Original ==
  (fn \in {"CleanClip", "CleanErase"} /\ pc = "returned")
    => DeletedAfterCleaning

(* C6 (amended): a CleanClip / CleanErase call that returns has attempted   *)
(* the deletion of its temporary dataset, once, after CleanFeatures         *)
(* finished, exactly when scratchGDB is "in_memory"; with any other         *)
(* scratchGDB no deletion is attempted. Either way, and whether or not the  *)
(* deletion failed, outFeats is returned.                                   *)
C6_ScratchCleanup ==
  (fn \in {"CleanClip", "CleanErase"} /\ pc = "returned") =>
    /\ result = outFeats
    /\ IF scratchGDB = "in_memory"
         THEN DeletedAfterCleaning /\ Cardinality(Calls("Delete")) = 1
         ELSE Calls("Delete") = {}

\* CleanClip returned outFeats although the deletion of in_memory\tmpClip failed.
C6_Witness ==
  /\ fn = "CleanClip" /\ pc = "returned" /\ result = outFeats
  /\ scratchGDB = "in_memory"
  /\ Failed("Delete") # {}

-----------------------------------------------------------------------------
(* C7: a failing engine call other than MultipartToSinglepart and Delete is *)
(* the last engine call of the operation and the operation ends raised, so  *)
(* it is neither retried nor swallowed; when it is the Clip or the Erase,   *)
(* CleanFeatures is never invoked.                                          *)
C7_FailuresPropagate ==
  \A i \in DOMAIN log :
    (~log[i].ok /\ log[i].tool \notin {"MultipartToSinglepart", "Delete"}) =>
      /\ i = Len(log)
      /\ pc = "raised"
      /\ log[i].tool \in {"Clip", "Erase"} =>
           /\ "CleanFeatures" \notin invoked
           /\ i = 1

\* A failing Erase ended CleanErase, and a failing repair inside the retry
\* handler ended CleanFeatures.
C7_Witness ==
  /\ pc = "raised"
  /\ \/ Failed("Erase") # {}
     \/ /\ Failed("RepairGeometry") # {}
        /\ Failed("MultipartToSinglepart") # {}

-----------------------------------------------------------------------------
(* C8: RepairGeometry runs once before the first attempt and once after     *)
(* each failed attempt, ahead of the next attempt or the copy: outside the  *)
(* handler the number of repairs is 1 + the number of failed attempts,      *)
(* every attempt and the copy directly follow a repair, and the first       *)
(* successful attempt is the last repair, attempt or copy.                  *)
C8_RepairInterleaved ==
  /\ ("CleanFeatures" \in invoked /\ pc \notin {"cf_repair", "cf_except"}) =>
        Cardinality(Calls("RepairGeometry"))
          = 1 + Cardinality(Failed("MultipartToSinglepart"))
  /\ pc = "cf_except" =>
        Cardinality(Calls("RepairGeometry"))
          = Cardinality(Failed("MultipartToSinglepart"))
  /\ \A i \in DOMAIN log :
       /\ log[i].tool \in {"MultipartToSinglepart", "CopyFeatures"} =>
            i > 1 /\ log[i-1].tool = "RepairGeometry" /\ log[i-1].ok
       /\ (log[i].tool = "RepairGeometry" /\ i > 1) =>
            log[i-1] = Call("MultipartToSinglepart", cfIn, FALSE)
               \/ log[i-1].tool \in {"Clip", "Erase"}
       /\ (log[i].tool = "MultipartToSinglepart" /\ log[i].ok) =>
            \A j \in DOMAIN log : j > i => log[j].tool = "Delete"

\* CleanFeatures returned after three failed attempts and a successful fourth.
C8_Witness ==
  /\ CleanFeaturesReturned
  /\ Cardinality(Failed("MultipartToSinglepart")) = 3
  /\ Cardinality(Passed("MultipartToSinglepart")) = 1
  /\ Cardinality(Calls("RepairGeometry")) = 4

-----------------------------------------------------------------------------
\* The last conversion attempt succeeded.
LastAttemptPassed ==
  \E i \in Passed("MultipartToSinglepart") :
    \A j \in Calls("MultipartToSinglepart") : j <= i

(* C9: CleanFeatures terminates: once entered, control leaves it; the loop  *)
(* is left with counter = 11, after a success or after the 10th failure;    *)
(* and when no RepairGeometry and no CopyFeatures call failed it returns    *)
(* outFeats.                                                                *)
C9_Terminates ==
  /\ ("CleanFeatures" \in invoked) ~> CleanFeaturesOver
  /\ [](pc = "cf_return" =>
          /\ counter = ExitCounter
          /\ \/ LastAttemptPassed
             \/ Cardinality(Failed("MultipartToSinglepart")) = MaxTries)
  /\ []((CleanFeaturesOver /\ Failed("RepairGeometry") = {}
           /\ Failed("CopyFeatures") = {}) => CleanFeaturesReturned)
  /\ []((fn = "CleanFeatures" /\ pc = "returned") => result = outFeats)

\* CleanFeatures returned outFeats after some failures and a final success.
C9_Witness ==
  /\ fn = "CleanFeatures" /\ pc = "returned" /\ result = outFeats
  /\ Failed("MultipartToSinglepart") # {}
  /\ LastAttemptPassed

-----------------------------------------------------------------------------
(* C10: the days, hours, minutes and seconds GetElapsedTime reports         *)
(* decompose t2 - t1 exactly: d*86400 + h*3600 + m*60 + s = t2 - t1 with    *)
(* 0 <= h < 24, 0 <= m < 60, 0 <= s < 60, so h*3600 + m*60 + s is the       *)
(* timedelta's seconds (0..86399) and d its days.                           *)
C10_ElapsedTime ==
  (fn = "GetElapsedTime" /\ pc = "returned") =>
    /\ result.h \in 0..23 /\ result.m \in 0..59 /\ result.s \in 0..59
    /\ result.h * 3600 + result.m * 60 + result.s \in 0..86399
    /\ result.d * 86400 + result.h * 3600 + result.m * 60 + result.s = t2 - t1

\* A span of more than a day with hours, minutes and seconds all non-zero.
C10_Witness ==
  /\ fn = "GetElapsedTime" /\ pc = "returned"
  /\ result.d > 0 /\ result.h > 0 /\ result.m > 0 /\ result.s > 0

-----------------------------------------------------------------------------
(* Reading SelectTopAgr's tables *)

\* The rows of sortedPolys carry the named field from this point on.
HasCumAcres  == top.pc \in {"SELECTION", "out_Polys", "returned"}
HasPolys     == top.pc \in {"zonalTab", "sortedPolys", "ACRES", "CUM_ACRES",
                            "SELECTION", "out_Polys", "returned"}
TopReturned  == top.pc = "returned"

\* 500,000 acres in the unit of the acreage fields.
TargetAcres == AcreTarget * 100

\* ACRES of rows 1..k added up, from row k down.
RECURSIVE SumAcres(_, _)
SumAcres(rows, k) ==
  IF k = 0 THEN 0 ELSE rows[k].ACRES + SumAcres(rows, k - 1)

\* The rows of sortedPolys that are in out_Polys.
Written == {k \in DOMAIN top.polys :
              \E j \in DOMAIN top.out_Polys :
                 top.out_Polys[j].gridcode = top.polys[k].gridcode}

-----------------------------------------------------------------------------
(* C3: the rows of sortedPolys are in descending order of MEAN; CUM_ACRES   *)
(* of row k is the sum of ACRES of rows 1..k; a row is written to out_Polys *)
(* if and only if its CUM_ACRES <= 500000; and the acreage of out_Polys     *)
(* adds up to at most 500,000.                                              *)
C3_CumulativeAcres ==
  /\ HasCumAcres =>
       \A k \in DOMAIN top.polys :
         /\ top.polys[k].CUM_ACRES = SumAcres(top.polys, k)
         /\ \A j \in DOMAIN top.polys :
              j > k => ~MeanGreater(top.polys[j].MEAN, top.polys[k].MEAN)
  /\ TopReturned =>
       /\ Written = {k \in DOMAIN top.polys :
                       top.polys[k].CUM_ACRES <= TargetAcres}
       /\ Len(top.out_Polys) = Cardinality(Written)
       /\ \A j \in DOMAIN top.out_Polys :
            \E k \in DOMAIN top.polys : top.out_Polys[j] = top.polys[k]
       /\ SumAcres(top.out_Polys, Len(top.out_Polys)) <= TargetAcres

\* Two rows were written and a third, which takes the sum past 500,000
\* acres, was not.
C3_Witness ==
  /\ TopReturned
  /\ Len(top.out_Polys) = 2
  /\ Len(top.polys) = 3
  /\ top.polys[3].CUM_ACRES > TargetAcres

-----------------------------------------------------------------------------
(* C4: the rows written to out_Polys are a prefix of sortedPolys, and every *)
(* written row has a MEAN greater than or equal to that of every row that   *)
(* is not written.                                                          *)
C4_TopScored ==
  TopReturned =>
    \A i \in Written, j \in DOMAIN top.polys \ Written :
      /\ i < j
      /\ ~MeanGreater(top.polys[j].MEAN, top.polys[i].MEAN)

\* A written row outscores a row that was left out.
C4_Witness ==
  /\ TopReturned
  /\ \E i \in Written, j \in DOMAIN top.polys \ Written :
       MeanGreater(top.polys[i].MEAN, top.polys[j].MEAN)

-----------------------------------------------------------------------------
\* A cell with a score above 80 that the conserved lands do not cover.
Eligible(c) ==
  /\ top.in_FarmAgrVal[c] > AgrThreshold
  /\ c \notin top.in_ConsLands

\* Two cells that share an edge.
SharesEdge(c, d) ==
  LET dr == IF c[1] >= d[1] THEN c[1] - d[1] ELSE d[1] - c[1]
      dc == IF c[2] >= d[2] THEN c[2] - d[2] ELSE d[2] - c[2]
  IN  dr + dc = 1

\* The cells of S that n or fewer edge steps inside S lead to from R.
RECURSIVE EdgeReach(_, _, _)
EdgeReach(S, R, n) ==
  IF n = 0 THEN R
  ELSE EdgeReach(S, R \cup {d \in S : \E c \in R : SharesEdge(c, d)}, n - 1)

\* S is one whole 4-connected region of eligible cells.
EligibleRegion(S) ==
  /\ S # {}
  /\ S \subseteq Cells
  /\ \A c \in S : Eligible(c)
  /\ EdgeReach(S, {CHOOSE c \in S : TRUE}, Cardinality(S)) = S
  /\ \A d \in Cells \ S : Eligible(d) => \A c \in S : ~SharesEdge(c, d)

(* C5: every polygon considered for selection, and so every polygon of      *)
(* out_Polys, is a whole 4-connected region of cells with a score above 80  *)
(* that conserved lands do not cover, and its area, the area of its cells,  *)
(* is at least 80937.1 square meters: no smaller region is among the rows   *)
(* whose ACRES are accumulated.                                             *)
C5_EligibleRegions ==
  HasPolys =>
    /\ \A k \in DOMAIN top.polys :
         /\ EligibleRegion(top.polys[k].shape)
         /\ top.polys[k].Shape_Area
              = Cardinality(top.polys[k].shape) * top.cellArea
         /\ top.polys[k].Shape_Area > MinRegionArea \div 100000
    /\ \A j \in DOMAIN top.out_Polys :
         \E k \in DOMAIN top.polys : top.out_Polys[j].shape = top.polys[k].shape

\* A polygon was written while an eligible cell lies in no polygon: its
\* region was under the size threshold.
C5_Witness ==
  /\ TopReturned
  /\ top.out_Polys # <<>>
  /\ \E c \in Cells :
       /\ Eligible(c)
       /\ \A k \in DOMAIN top.polys : c \notin top.polys[k].shape
=============================================================================
